---- MODULE Spec2Model ----
(***************************************************************************)
(* A model of advanced-vector/vector.h: RawMemory<T> (the owner of a raw   *)
(* block) and Vector<T> (the sequence built on it).                        *)
(*                                                                         *)
(* The heap is a map from block addresses to blocks; a block is a sequence *)
(* of slots, each raw (no object), holding an object with a value, or      *)
(* holding a moved-from object (constructed, value unspecified).  Two      *)
(* Vector objects, "a" and "b", are constructed, used and destroyed by the *)
(* calling program; every action is one call of a public member.           *)
(*                                                                         *)
(* The element type T is a parameter of the template: kind records the     *)
(* two traits the code asks about.  What T may throw is an input of each   *)
(* call: fail = k makes the k-th throwing-capable element construction of  *)
(* the call throw (0: none does), allocOk = FALSE makes operator new throw *)
(* std::bad_alloc.  Assignments of T are taken not to throw.               *)
(*                                                                         *)
(* An access through a pointer that is not a slot of a live block, or to a *)
(* slot holding no object, is undefined behaviour: the call either stops   *)
(* the program (crashed) or goes on, a read yielding an arbitrary value    *)
(* and a write or a destruction leaving the modelled heap as it is.        *)
(***************************************************************************)
EXTENDS Integers, Sequences, FiniteSets, TLC

\* ---------------------------------------------------------------- bounds
MaxCap == 4
MaxVal == 1
MaxBufs == 3
PairCap == 2

\* ------------------------------------------------------------- constants
Null == 0
DefaultValue == 0

Names == {"a", "b"}
BufIds == 1..MaxBufs
Values == 0..MaxVal
Kinds == { [nothrow_move |-> TRUE,  copyable |-> TRUE],
           [nothrow_move |-> FALSE, copyable |-> TRUE],
           [nothrow_move |-> FALSE, copyable |-> FALSE] }

VARIABLES vec, heap, kind, crashed, last, hist

vars == <<vec, heap, kind, crashed, last, hist>>

\* ----------------------------------------------------------------- slots
Raw == [st |-> "raw", v |-> 0]
Moved == [st |-> "moved", v |-> 0]
Obj(x) == [st |-> "obj", v |-> x]

FreeBlock == [live |-> FALSE, slots |-> <<>>]
RawBlock(n) == [live |-> TRUE, slots |-> [j \in 1..n |-> Raw]]

\* --------------------------------------------------- the type's traits
\* (mutant) the test without its second operand
UseMoveIfNothrow == kind.nothrow_move

\* if constexpr (is_nothrow_move_constructible_v<T> || !is_copy_constructible_v<T>)
UseMove == kind.nothrow_move \/ ~kind.copyable
CopyThrows == TRUE
MoveThrows == ~kind.nothrow_move
DefaultThrows == TRUE
ArgsThrows == TRUE

\* How the new element of PushBack/EmplaceBack/Emplace is constructed:
\* "copy" (const T&), "move" (T&&), "args" (Args&&...).
CtorThrows(how) ==
    CASE how = "copy" -> CopyThrows
      [] how = "move" -> MoveThrows
      [] OTHER -> ArgsThrows

\* ------------------------------------------------- the state of one call
\* heap: the heap as the call has left it so far; ops: throwing-capable
\* constructions run so far; threw: an exception is propagating; oob: an
\* access outside a live block's objects happened; destroyed: destructor
\* calls made; relLive: objects that were still constructed in a block
\* when it was released; dfree: a block was released that was not live;
\* got: the pointer the last Allocate returned; allocs: blocks asked for;
\* what: the construction that threw; moved, copied: the elements that
\* std::uninitialized_move(_n) and std::uninitialized_copy(_n) constructed.
Call(fail, allocOk, g) ==
    [heap |-> heap, ops |-> 0, allocs |-> 0, fail |-> fail, allocOk |-> allocOk,
     threw |-> FALSE, badalloc |-> FALSE, oob |-> FALSE, destroyed |-> 0,
     relLive |-> 0, dfree |-> FALSE, garbage |-> g, got |-> Null, what |-> "none",
     moved |-> 0, copied |-> 0]

Valid(M, b, i) ==
    /\ b # Null
    /\ M.heap[b].live
    /\ i >= 0
    /\ i < Len(M.heap[b].slots)

Constructed(M, b, i) == Valid(M, b, i) /\ M.heap[b].slots[i + 1].st # "raw"

\* *(b + i) read
Load(M, b, i) == IF Constructed(M, b, i) THEN M.heap[b].slots[i + 1] ELSE Obj(M.garbage)

Touch(M, b, i) == IF Constructed(M, b, i) THEN M ELSE [M EXCEPT !.oob = TRUE]

\* new (b + i) T(...)
PlaceAt(M, b, i, s) ==
    IF Valid(M, b, i) THEN [M EXCEPT !.heap[b].slots[i + 1] = s]
    ELSE [M EXCEPT !.oob = TRUE]

\* *(b + i) = ...
AssignAt(M, b, i, s) ==
    IF Constructed(M, b, i) THEN [M EXCEPT !.heap[b].slots[i + 1] = s]
    ELSE [M EXCEPT !.oob = TRUE]

\* the source of a move is left moved-from
LeaveMoved(M, b, i) ==
    IF Constructed(M, b, i) THEN [M EXCEPT !.heap[b].slots[i + 1] = Moved] ELSE M

\* one throwing-capable construction (what: "copy", "move", "default" of an
\* existing or filling element, "ctor" of the new element, "shift" of the
\* last element into the free slot): the fail-th of the call throws
Tick(M, can, what) ==
    IF can THEN [M EXCEPT !.ops = M.ops + 1, !.threw = (M.ops + 1 = M.fail),
                          !.what = IF M.ops + 1 = M.fail THEN what ELSE M.what]
    ELSE M

\* std::destroy_n(b + off, n)
DestroyN(M, b, off, n) ==
    LET idx == off..(off + n - 1)
        good == {i \in idx : Constructed(M, b, i)}
        M1 == IF good = {} THEN M
              ELSE [M EXCEPT !.heap[b].slots =
                       [j \in 1..Len(M.heap[b].slots) |->
                           IF (j - 1) \in good THEN Raw ELSE M.heap[b].slots[j]]]
    IN [M1 EXCEPT !.destroyed = M.destroyed + Cardinality(good),
                  !.oob = M.oob \/ (good # idx)]

\* std::uninitialized_copy_n(sb + so, n, db + do): element k of n; a throw
\* destroys the k elements already constructed in the destination.
RECURSIVE CopyFrom(_, _, _, _, _, _, _)
CopyFrom(M, sb, so, db, do, n, k) ==
    IF k >= n THEN M
    ELSE LET T == Tick(M, CopyThrows, "copy")
         IN IF T.threw THEN DestroyN(T, db, do, k)
            ELSE CopyFrom([PlaceAt(Touch(T, sb, so + k), db, do + k, Load(T, sb, so + k))
                              EXCEPT !.copied = T.copied + 1],
                          sb, so, db, do, n, k + 1)

uninitialized_copy_n(M, sb, so, n, db, do) == CopyFrom(M, sb, so, db, do, n, 0)

\* std::uninitialized_move_n(sb + so, n, db + do)
RECURSIVE MoveFrom(_, _, _, _, _, _, _)
MoveFrom(M, sb, so, db, do, n, k) ==
    IF k >= n THEN M
    ELSE LET T == Tick(M, MoveThrows, "move")
         IN IF T.threw THEN DestroyN(T, db, do, k)
            ELSE MoveFrom([LeaveMoved(PlaceAt(Touch(T, sb, so + k), db, do + k,
                                              Load(T, sb, so + k)), sb, so + k)
                              EXCEPT !.moved = T.moved + 1],
                          sb, so, db, do, n, k + 1)

uninitialized_move_n(M, sb, so, n, db, do) == MoveFrom(M, sb, so, db, do, n, 0)

\* std::uninitialized_value_construct_n(b + off, n)
RECURSIVE ValueConstructFrom(_, _, _, _, _)
ValueConstructFrom(M, b, off, n, k) ==
    IF k >= n THEN M
    ELSE LET T == Tick(M, DefaultThrows, "default")
         IN IF T.threw THEN DestroyN(T, b, off, k)
            ELSE ValueConstructFrom(PlaceAt(T, b, off + k, Obj(DefaultValue)),
                                    b, off, n, k + 1)

uninitialized_value_construct_n(M, b, off, n) == ValueConstructFrom(M, b, off, n, 0)

\* (mutant) std::move(b + first + 1, b + last, b + d): the shift starts one late
RECURSIVE move_range_late(_, _, _, _, _)
move_range_late(M, b, first, lst, d) ==
    IF first + 1 >= lst THEN M
    ELSE move_range_late(LeaveMoved(AssignAt(Touch(M, b, first + 1), b, d,
                                             Load(M, b, first + 1)), b, first + 1),
                         b, first + 1, lst, d + 1)

\* std::move(b + first, b + last, b + d): move-assigns front to back
RECURSIVE move_range(_, _, _, _, _)
move_range(M, b, first, lst, d) ==
    IF first >= lst THEN M
    ELSE move_range(LeaveMoved(AssignAt(Touch(M, b, first), b, d, Load(M, b, first)),
                               b, first),
                    b, first + 1, lst, d + 1)

\* (mutant) std::move in place of std::move_backward: front to back, over the
\* elements still to be moved
RECURSIVE move_forward_overlapping(_, _, _, _, _)
move_forward_overlapping(M, b, first, lst, dlast) ==
    IF first >= lst THEN M
    ELSE move_forward_overlapping(
             LeaveMoved(AssignAt(Touch(M, b, first), b, dlast - (lst - first),
                                 Load(M, b, first)), b, first),
             b, first + 1, lst, dlast)

\* std::move_backward(b + first, b + last, b + dlast): back to front
RECURSIVE move_backward(_, _, _, _, _)
move_backward(M, b, first, lst, dlast) ==
    IF first >= lst THEN M
    ELSE move_backward(LeaveMoved(AssignAt(Touch(M, b, lst - 1), b, dlast - 1,
                                           Load(M, b, lst - 1)), b, lst - 1),
                       b, first, lst - 1, dlast - 1)

\* ------------------------------------------------------------ RawMemory
FreeIds(h) == {b \in BufIds : ~h[b].live}
NewId(h) == CHOOSE b \in FreeIds(h) : \A x \in FreeIds(h) : b <= x

\* RawMemory::Allocate: operator new(n * sizeof(T)), nullptr for n = 0.
\* operator new throws std::bad_alloc when the call's input says so, and
\* when the heap has no address left.
Allocate(M, n) ==
    IF n = 0 THEN [M EXCEPT !.got = Null]
    ELSE IF ~M.allocOk \/ FreeIds(M.heap) = {}
         THEN [M EXCEPT !.threw = TRUE, !.badalloc = TRUE, !.allocs = M.allocs + 1]
         ELSE [M EXCEPT !.heap[NewId(M.heap)] = RawBlock(n), !.got = NewId(M.heap),
                        !.allocs = M.allocs + 1]

\* RawMemory::Deallocate: operator delete(buf), no destructor is called
Deallocate(M, b) ==
    IF b = Null THEN M
    ELSE IF ~M.heap[b].live THEN [M EXCEPT !.dfree = TRUE]
    ELSE [M EXCEPT !.heap[b] = FreeBlock,
                   !.relLive = M.relLive +
                       Cardinality({j \in 1..Len(M.heap[b].slots) :
                                       M.heap[b].slots[j].st # "raw"})]

EmptyMemory == [buffer |-> Null, capacity |-> 0]

\* RawMemory(size_t capacity), given the pointer Allocate returned
RawMemoryOf(M, n) == [buffer |-> M.got, capacity |-> n]

\* --------------------------------------------------------------- Vector
\* A Vector object: data_ (a RawMemory: buffer_, capacity_) and size_.
\* alive is FALSE before construction and after destruction.
NoVector == [alive |-> FALSE, data |-> EmptyMemory, size |-> 0]
MkVector(d, n) == [alive |-> TRUE, data |-> d, size |-> n]

\* An iterator (a T*): a block address and an offset in it.
Ptr(b, i) == [buffer |-> b, idx |-> i]
NoPtr == Ptr(Null, 0)

\* A value argument (const T&, T&& or Args&&...): a reference to an object of
\* the caller's with value x, or to the element in slot p of a block.
Lit(x) == [own |-> FALSE, at |-> NoPtr, v |-> x]
Ref(p) == [own |-> TRUE, at |-> p, v |-> 0]

\* The object the argument refers to, as it is when the constructor reads it.
Arg(M, val) ==
    IF val.own THEN Load(M, val.at.buffer, val.at.idx) ELSE Obj(val.v)

\* The outcome of a member call: the call's state, the object, a second
\* object where the member takes one, and the returned iterator.
Res(M, v, ret) == [M |-> M, v |-> v, o |-> NoVector, ret |-> ret]
Res2(M, v, o) == [M |-> M, v |-> v, o |-> o, ret |-> NoPtr]

\* Vector::~Vector followed by ~RawMemory
Destructor(M, v) ==
    Deallocate(IF v.data.buffer # Null THEN DestroyN(M, v.data.buffer, 0, v.size) ELSE M,
               v.data.buffer)

\* (mutant) Vector(size_t) that keeps the block when a constructor throws
SizedCtorLeaks(M, n) ==
    LET M1 == Allocate(M, n)
        d == RawMemoryOf(M1, n)
    IN IF M1.threw THEN Res(M1, NoVector, NoPtr)
       ELSE LET M2 == uninitialized_value_construct_n(M1, d.buffer, 0, n)
            IN IF M2.threw THEN Res(M2, NoVector, NoPtr)
               ELSE Res(M2, MkVector(d, n), NoPtr)

\* Vector(size_t size)
SizedCtor(M, n) ==
    LET M1 == Allocate(M, n)
        d == RawMemoryOf(M1, n)
    IN IF M1.threw THEN Res(M1, NoVector, NoPtr)
       ELSE LET M2 == uninitialized_value_construct_n(M1, d.buffer, 0, n)
            IN IF M2.threw THEN Res(Deallocate(M2, d.buffer), NoVector, NoPtr)
               ELSE Res(M2, MkVector(d, n), NoPtr)

\* (mutant) a copy that takes the source's block instead of copying it
CopyCtorShallow(M, other) == Res2(M, MkVector(other.data, other.size), other)

\* Vector(const Vector& other); o is returned as it was
CopyCtor(M, other) ==
    LET M1 == Allocate(M, other.size)
        d == RawMemoryOf(M1, other.size)
    IN IF M1.threw THEN Res2(M1, NoVector, other)
       ELSE LET M2 == uninitialized_copy_n(M1, other.data.buffer, 0, other.size, d.buffer, 0)
            IN IF M2.threw THEN Res2(Deallocate(M2, d.buffer), NoVector, other)
               ELSE Res2(M2, MkVector(d, other.size), other)

\* (mutant) a move constructor that leaves the source its block
MoveCtorKeepsSource(M, other) == Res2(M, MkVector(other.data, other.size), other)

\* Vector(Vector&& other): data_(std::move(other.data_)), size_(std::move(other.size_));
\* std::move of a size_t copies it
MoveCtor(M, other) ==
    Res2(M, MkVector(other.data, other.size), [other EXCEPT !.data = EmptyMemory])

\* Vector::Swap
Swap(M, v, other) == Res2(M, [v EXCEPT !.data = other.data, !.size = other.size],
                             [other EXCEPT !.data = v.data, !.size = v.size])

\* data_[i] = rhs.data_[i] for i in [k, n)
RECURSIVE AssignFrom(_, _, _, _, _)
AssignFrom(M, sb, db, n, k) ==
    IF k >= n THEN M
    ELSE AssignFrom(AssignAt(Touch(M, sb, k), db, k, Load(M, sb, k)), sb, db, n, k + 1)

\* Vector::operator=(const Vector& rhs); self: this == &rhs
CopyAssign(M, v, rhs, self) ==
    IF self THEN Res2(M, v, v)
    ELSE IF rhs.size > v.data.capacity
    THEN LET C == CopyCtor(M, rhs)
         IN IF C.M.threw THEN Res2(C.M, v, rhs)
            ELSE LET S == Swap(C.M, v, C.v)
                 IN Res2(Destructor(S.M, S.o), S.v, rhs)
    ELSE IF rhs.size >= v.size
    THEN LET M1 == AssignFrom(M, rhs.data.buffer, v.data.buffer, v.size, 0)
             M2 == uninitialized_copy_n(M1, rhs.data.buffer, 0, rhs.size - v.size,
                                        v.data.buffer, v.size)
         IN IF M2.threw THEN Res2(M2, v, rhs)
            ELSE Res2(M2, [v EXCEPT !.size = rhs.size], rhs)
    ELSE LET M1 == AssignFrom(M, rhs.data.buffer, v.data.buffer, rhs.size, 0)
             M2 == DestroyN(M1, v.data.buffer, rhs.size, v.size - rhs.size)
         IN Res2(M2, [v EXCEPT !.size = rhs.size], rhs)

\* Vector::operator=(Vector&& rhs): RawMemory::operator=(RawMemory&&) overwrites
\* buffer_ and capacity_ and empties rhs.data_; size_ = std::move(rhs.size_) copies
MoveAssign(M, v, rhs, self) ==
    IF self THEN Res2(M, v, v)
    ELSE Res2(M, [v EXCEPT !.data = rhs.data, !.size = rhs.size],
                 [rhs EXCEPT !.data = EmptyMemory])

\* (mutant) Reserve that destroys the elements before it has the new block
ReserveDestroysFirst(M, v, new_capacity) ==
    IF new_capacity <= v.data.capacity THEN Res(M, v, NoPtr)
    ELSE LET M0 == DestroyN(M, v.data.buffer, 0, v.size)
             M1 == Allocate(M0, new_capacity)
             new_data == RawMemoryOf(M1, new_capacity)
         IN IF M1.threw THEN Res(M1, v, NoPtr)
            ELSE Res(Deallocate(M1, v.data.buffer),
                     [v EXCEPT !.data = new_data, !.size = 0], NoPtr)

\* (mutant) Reserve that releases the old block with its elements in it
ReserveNoDestroy(M, v, new_capacity) ==
    IF new_capacity <= v.data.capacity THEN Res(M, v, NoPtr)
    ELSE LET M1 == Allocate(M, new_capacity)
             new_data == RawMemoryOf(M1, new_capacity)
         IN IF M1.threw THEN Res(M1, v, NoPtr)
            ELSE LET M2 == IF UseMove
                           THEN uninitialized_move_n(M1, v.data.buffer, 0, v.size,
                                                     new_data.buffer, 0)
                           ELSE uninitialized_copy_n(M1, v.data.buffer, 0, v.size,
                                                     new_data.buffer, 0)
                 IN IF M2.threw THEN Res(Deallocate(M2, new_data.buffer), v, NoPtr)
                    ELSE Res(Deallocate(M2, v.data.buffer),
                             [v EXCEPT !.data = new_data], NoPtr)

\* Vector::Reserve
Reserve(M, v, new_capacity) ==
    IF new_capacity <= v.data.capacity THEN Res(M, v, NoPtr)
    ELSE LET M1 == Allocate(M, new_capacity)
             new_data == RawMemoryOf(M1, new_capacity)
         IN IF M1.threw THEN Res(M1, v, NoPtr)
            ELSE LET M2 == IF UseMove
                           THEN uninitialized_move_n(M1, v.data.buffer, 0, v.size,
                                                     new_data.buffer, 0)
                           ELSE uninitialized_copy_n(M1, v.data.buffer, 0, v.size,
                                                     new_data.buffer, 0)
                 IN IF M2.threw THEN Res(Deallocate(M2, new_data.buffer), v, NoPtr)
                    ELSE Res(Deallocate(DestroyN(M2, v.data.buffer, 0, v.size),
                                        v.data.buffer),
                             [v EXCEPT !.data = new_data], NoPtr)

\* (mutant) Resize that, shrinking, destroys one element too few
ResizeDestroysShort(M, v, new_size) ==
    IF new_size = v.size THEN Res(M, v, NoPtr)
    ELSE IF new_size > v.size
    THEN LET R == Reserve(M, v, new_size)
         IN IF R.M.threw THEN R
            ELSE LET M2 == uninitialized_value_construct_n(R.M, R.v.data.buffer, v.size,
                                                           new_size - v.size)
                 IN IF M2.threw THEN Res(M2, R.v, NoPtr)
                    ELSE Res(M2, [R.v EXCEPT !.size = new_size], NoPtr)
    ELSE Res(DestroyN(M, v.data.buffer, new_size + 1, v.size - new_size - 1),
             [v EXCEPT !.size = new_size], NoPtr)

\* Vector::Resize
Resize(M, v, new_size) ==
    IF new_size = v.size THEN Res(M, v, NoPtr)
    ELSE IF new_size > v.size
    THEN LET R == Reserve(M, v, new_size)
         IN IF R.M.threw THEN R
            ELSE LET M2 == uninitialized_value_construct_n(R.M, R.v.data.buffer, v.size,
                                                           new_size - v.size)
                 IN IF M2.threw THEN Res(M2, R.v, NoPtr)
                    ELSE Res(M2, [R.v EXCEPT !.size = new_size], NoPtr)
    ELSE Res(DestroyN(M, v.data.buffer, new_size, v.size - new_size),
             [v EXCEPT !.size = new_size], NoPtr)

\* (mutant) growth by one slot
NewExpendedCapPlusOne(size) == size + 1

\* Vector::NewExpendedMem: the capacity it asks for
NewExpendedCap(size) == IF size = 0 THEN 1 ELSE size * 2

\* Vector::NewExpendedMem
NewExpendedMem(M, v) == Allocate(M, NewExpendedCap(v.size))

\* (mutant) Realloc that swaps the blocks before it relocates the elements
ReallocSwapFirst(M, v, new_data) ==
    LET M1 == IF UseMove
              THEN uninitialized_move_n(M, v.data.buffer, 0, v.size, new_data.buffer, 0)
              ELSE uninitialized_copy_n(M, v.data.buffer, 0, v.size, new_data.buffer, 0)
    IN IF M1.threw THEN [M |-> M1, v |-> [v EXCEPT !.data = new_data], nd |-> v.data]
       ELSE [M |-> DestroyN(M1, v.data.buffer, 0, v.size),
             v |-> [v EXCEPT !.data = new_data], nd |-> v.data]

\* Vector::Realloc(new_data); nd is new_data after the swap (the old block)
Realloc(M, v, new_data) ==
    LET M1 == IF UseMove
              THEN uninitialized_move_n(M, v.data.buffer, 0, v.size, new_data.buffer, 0)
              ELSE uninitialized_copy_n(M, v.data.buffer, 0, v.size, new_data.buffer, 0)
    IN IF M1.threw THEN [M |-> M1, v |-> v, nd |-> new_data]
       ELSE [M |-> DestroyN(M1, v.data.buffer, 0, v.size),
             v |-> [v EXCEPT !.data = new_data], nd |-> v.data]

\* (mutant) EmplaceBack that, growing, relocates the elements before it
\* constructs the new one
EmplaceBackRelocatesFirst(M, v, val, how) ==
    IF v.size = v.data.capacity
    THEN LET M1 == NewExpendedMem(M, v)
             new_memory == RawMemoryOf(M1, NewExpendedCap(v.size))
         IN IF M1.threw THEN Res(M1, v, NoPtr)
            ELSE LET R == Realloc(M1, v, new_memory)
                     M2 == IF R.M.threw THEN R.M ELSE Tick(R.M, CtorThrows(how), "ctor")
                 IN IF M2.threw THEN Res(Deallocate(M2, R.nd.buffer), R.v, NoPtr)
                    ELSE Res(Deallocate(PlaceAt(M2, new_memory.buffer, v.size,
                                                Arg(M2, val)), R.nd.buffer),
                             [R.v EXCEPT !.size = v.size + 1],
                             Ptr(new_memory.buffer, v.size))
    ELSE LET M2 == Tick(M, CtorThrows(how), "ctor")
         IN IF M2.threw THEN Res(M2, v, NoPtr)
            ELSE Res(PlaceAt(M2, v.data.buffer, v.size, Arg(M2, val)),
                     [v EXCEPT !.size = v.size + 1], Ptr(v.data.buffer, v.size))

\* Vector::EmplaceBack, and PushBack(const T&) / PushBack(T&&), which differ from
\* it in the constructor of the new element only (how)
EmplaceBack(M, v, val, how) ==
    IF v.size = v.data.capacity
    THEN LET M1 == NewExpendedMem(M, v)
             new_memory == RawMemoryOf(M1, NewExpendedCap(v.size))
         IN IF M1.threw THEN Res(M1, v, NoPtr)
            ELSE LET M2 == Tick(M1, CtorThrows(how), "ctor")
                 IN IF M2.threw THEN Res(Deallocate(M2, new_memory.buffer), v, NoPtr)
                    ELSE LET R == Realloc(PlaceAt(M2, new_memory.buffer, v.size,
                                                  Arg(M2, val)),
                                          v, new_memory)
                         IN IF R.M.threw
                            THEN Res(Deallocate(R.M, R.nd.buffer), R.v, NoPtr)
                            ELSE Res(Deallocate(R.M, R.nd.buffer),
                                     [R.v EXCEPT !.size = v.size + 1],
                                     Ptr(new_memory.buffer, v.size))
    ELSE LET M2 == Tick(M, CtorThrows(how), "ctor")
         IN IF M2.threw THEN Res(M2, v, NoPtr)
            ELSE Res(PlaceAt(M2, v.data.buffer, v.size, Arg(M2, val)),
                     [v EXCEPT !.size = v.size + 1], Ptr(v.data.buffer, v.size))

\* Vector::PopBack
PopBack(M, v) ==
    Res(DestroyN(M, v.data.buffer, v.size - 1, 1), [v EXCEPT !.size = v.size - 1], NoPtr)

\* (mutant) Emplace that, in place, shifts the elements and then assigns from its
\* argument, with no temporary
EmplaceNoTemp(M, v, i, val, how) ==
    IF i = v.size THEN EmplaceBack(M, v, val, how)
    ELSE IF v.size = v.data.capacity
    THEN LET offset == i
             M1 == NewExpendedMem(M, v)
             new_data == RawMemoryOf(M1, NewExpendedCap(v.size))
         IN IF M1.threw THEN Res(M1, v, NoPtr)
            ELSE LET M2 == Tick(M1, CtorThrows(how), "ctor")
                 IN IF M2.threw THEN Res(Deallocate(M2, new_data.buffer), v, NoPtr)
                    ELSE LET M3 == PlaceAt(M2, new_data.buffer, offset, Arg(M2, val))
                             M4 == IF UseMove
                                   THEN uninitialized_move_n(M3, v.data.buffer, 0, i,
                                                             new_data.buffer, 0)
                                   ELSE uninitialized_copy_n(M3, v.data.buffer, 0, i,
                                                             new_data.buffer, 0)
                             M5 == IF M4.threw THEN M4
                                   ELSE IF UseMove
                                   THEN uninitialized_move_n(M4, v.data.buffer, i, v.size - i,
                                                             new_data.buffer, offset + 1)
                                   ELSE uninitialized_copy_n(M4, v.data.buffer, i, v.size - i,
                                                             new_data.buffer, offset + 1)
                         IN IF M5.threw THEN Res(Deallocate(M5, new_data.buffer), v, NoPtr)
                            ELSE Res(Deallocate(DestroyN(M5, v.data.buffer, 0, v.size),
                                                v.data.buffer),
                                     [v EXCEPT !.data = new_data, !.size = v.size + 1],
                                     Ptr(new_data.buffer, offset))
    ELSE LET b == v.data.buffer
             M1 == Tick(M, CtorThrows(how), "ctor")
             M2 == IF M1.threw THEN M1 ELSE Tick(M1, MoveThrows, "shift")
         IN IF M2.threw THEN Res(M2, v, NoPtr)
            ELSE LET M3 == LeaveMoved(PlaceAt(Touch(M2, b, v.size - 1), b, v.size,
                                              Load(M2, b, v.size - 1)), b, v.size - 1)
                     M4 == move_backward(M3, b, i, v.size - 1, v.size)
                     M5 == AssignAt(M4, b, i, Arg(M4, val))
                 IN Res(M5, [v EXCEPT !.size = v.size + 1], Ptr(b, i))

\* Vector::Emplace(pos, args...) with pos = begin() + i, and Insert(pos, value)
Emplace(M, v, i, val, how) ==
    IF i = v.size THEN EmplaceBack(M, v, val, how)
    ELSE IF v.size = v.data.capacity
    THEN LET offset == i
             M1 == NewExpendedMem(M, v)
             new_data == RawMemoryOf(M1, NewExpendedCap(v.size))
         IN IF M1.threw THEN Res(M1, v, NoPtr)
            ELSE LET M2 == Tick(M1, CtorThrows(how), "ctor")
                 IN IF M2.threw THEN Res(Deallocate(M2, new_data.buffer), v, NoPtr)
                    ELSE LET M3 == PlaceAt(M2, new_data.buffer, offset, Arg(M2, val))
                             M4 == IF UseMove
                                   THEN uninitialized_move_n(M3, v.data.buffer, 0, i,
                                                             new_data.buffer, 0)
                                   ELSE uninitialized_copy_n(M3, v.data.buffer, 0, i,
                                                             new_data.buffer, 0)
                             M5 == IF M4.threw THEN M4
                                   ELSE IF UseMove
                                   THEN uninitialized_move_n(M4, v.data.buffer, i, v.size - i,
                                                             new_data.buffer, offset + 1)
                                   ELSE uninitialized_copy_n(M4, v.data.buffer, i, v.size - i,
                                                             new_data.buffer, offset + 1)
                         IN IF M5.threw THEN Res(Deallocate(M5, new_data.buffer), v, NoPtr)
                            ELSE Res(Deallocate(DestroyN(M5, v.data.buffer, 0, v.size),
                                                v.data.buffer),
                                     [v EXCEPT !.data = new_data, !.size = v.size + 1],
                                     Ptr(new_data.buffer, offset))
    ELSE LET b == v.data.buffer
             M1 == Tick(M, CtorThrows(how), "ctor")
             temp == Arg(M1, val)
             M2 == IF M1.threw THEN M1 ELSE Tick(M1, MoveThrows, "shift")
         IN IF M2.threw THEN Res(M2, v, NoPtr)
            ELSE LET M3 == LeaveMoved(PlaceAt(Touch(M2, b, v.size - 1), b, v.size,
                                              Load(M2, b, v.size - 1)), b, v.size - 1)
                     M4 == move_backward(M3, b, i, v.size - 1, v.size)
                     M5 == AssignAt(M4, b, i, temp)
                 IN Res(M5, [v EXCEPT !.size = v.size + 1], Ptr(b, i))

\* (mutant) Erase that destroys the last element without shifting the others
EraseNoShift(M, v, pos) ==
    Res(DestroyN(M, v.data.buffer, v.size - 1, 1), [v EXCEPT !.size = v.size - 1], pos)

\* Vector::Erase(pos).  pos is an iterator: where it does not point into the
\* object's block, the shifted range [pos + 1, end()) is no range of objects.
Erase(M, v, pos) ==
    LET b == v.data.buffer
        i == pos.idx
        M1 == IF pos.buffer = b THEN move_range(M, b, i + 1, v.size, i)
              ELSE [M EXCEPT !.oob = TRUE]
        M2 == DestroyN(M1, b, v.size - 1, 1)
    IN Res(M2, [v EXCEPT !.size = v.size - 1], pos)

\* Vector::operator[](index) = x
Subscript(M, v, index, x) == Res(AssignAt(M, v.data.buffer, index, Obj(x)), v, NoPtr)

\* ------------------------------------------------------- observations
\* The object's slots [0, size) lie in a live block it owns and hold objects.
WellFormed(h, v) ==
    /\ v.alive
    /\ v.size <= v.data.capacity
    /\ \/ v.data.buffer = Null /\ v.data.capacity = 0
       \/ /\ v.data.buffer # Null
          /\ h[v.data.buffer].live
          /\ Len(h[v.data.buffer].slots) = v.data.capacity
          /\ \A j \in 1..v.data.capacity :
                (h[v.data.buffer].slots[j].st = "raw") <=> (j > v.size)

\* The sequence of elements the object holds (of a well-formed object).
Contents(h, v) ==
    IF v.size = 0 \/ ~WellFormed(h, v) THEN <<>>
    ELSE SubSeq(h[v.data.buffer].slots, 1, v.size)

\* Live blocks no object owns.
Orphans(h, vs) == {b \in BufIds : h[b].live /\ \A c \in Names : vs[c].data.buffer # b}

\* ---------------------------------------------------------------- steps
Outcome(M) == IF M.badalloc THEN "bad_alloc" ELSE IF M.threw THEN "threw" ELSE "ok"

\* The record of the last call: the member (op), the object it was called on
\* (c) and the object it took (d), its index or count argument (i) and its
\* value argument (x), how its new element was constructed, how the call
\* ended, the iterator it returned, what it did to the heap (orphaned: the
\* blocks it left live and unowned, orphanLive: the objects in them), and the objects
\* and the heap as they were when it was called.  rt marks an Erase of the
\* iterator that the Insert before it returned; orig is then the record of
\* that Insert.  src is the element of the object itself that the value
\* argument referred to, where it did.
Record(op, c, d, i, x, how, R, cr, rt) ==
    [op |-> op, c |-> c, d |-> d, i |-> i, x |-> x, how |-> how,
     outcome |-> IF cr THEN "crash" ELSE Outcome(R.M),
     ret |-> IF cr THEN NoPtr ELSE R.ret,
     oob |-> R.M.oob, destroyed |-> R.M.destroyed, relLive |-> R.M.relLive,
     dfree |-> R.M.dfree, ops |-> R.M.ops, fail |-> R.M.fail, threwIn |-> R.M.what,
     orphaned |-> 0, orphanLive |-> 0,
     moved |-> R.M.moved, copied |-> R.M.copied, allocs |-> R.M.allocs, src |-> NoPtr,
     vec0 |-> vec, heap0 |-> heap,
     rt |-> rt, origv |-> IF rt THEN last.vec0 ELSE vec,
     origh |-> IF rt THEN last.heap0 ELSE heap]

Idle ==
    [op |-> "none", c |-> "a", d |-> "a", i |-> 0, x |-> 0, how |-> "none",
     outcome |-> "ok", ret |-> NoPtr, oob |-> FALSE, destroyed |-> 0, relLive |-> 0,
     dfree |-> FALSE, ops |-> 0, fail |-> 0, threwIn |-> "none", orphaned |-> 0,
     orphanLive |-> 0, moved |-> 0, copied |-> 0, allocs |-> 0, src |-> NoPtr,
     vec0 |-> [c \in Names |-> NoVector], heap0 |-> [b \in BufIds |-> FreeBlock],
     rt |-> FALSE, origv |-> [c \in Names |-> NoVector],
     origh |-> [b \in BufIds |-> FreeBlock]]

\* The objects still constructed in the blocks bs of heap h.
LiveIn(h, bs) ==
    Cardinality({p \in bs \X (1..MaxCap) :
                    p[2] <= Len(h[p[1]].slots) /\ h[p[1]].slots[p[2]].st # "raw"})

\* The heap the program can still reach: a block that no object owns any
\* more can be neither used nor released again; the call's record keeps
\* that it was orphaned, and the block leaves the heap.
Reachable(h, vs) == [b \in BufIds |-> IF b \in Orphans(h, vs) THEN FreeBlock ELSE h[b]]

\* The block of object v, as a value.
BlockOf(h, v) == IF v.data.buffer = Null THEN FreeBlock ELSE h[v.data.buffer]

AppendOps == {"PushBack", "EmplaceBack"}
InsertOps == {"Insert", "Emplace"}
CopyOps == {"Vector(const&)", "operator=(const&)"}
MoveOps == {"Vector(&&)", "operator=(&&)"}
Mutators == AppendOps \cup InsertOps \cup {"operator[]", "PopBack", "Erase", "Resize", "Reserve"}

\* What the calls so far make of the objects: appendOnly, the objects that
\* were default-constructed and since then only appended to; copy, the
\* object c that was made a copy of another object d (which was then v, its
\* block blk) and has since then been the only one called, with mutating
\* members.
NoCopy == [on |-> FALSE, c |-> "a", d |-> "a", v |-> NoVector, blk |-> FreeBlock]

History(r, vs, h) ==
    [appendOnly |->
        IF r.op = "Vector" THEN hist.appendOnly \cup {r.c}
        ELSE IF r.op \in AppendOps THEN hist.appendOnly
        ELSE hist.appendOnly \ {r.c, r.d},
     copy |->
        IF r.op \in CopyOps /\ r.outcome = "ok" /\ r.c # r.d
        THEN [on |-> TRUE, c |-> r.c, d |-> r.d, v |-> vs[r.d], blk |-> BlockOf(h, vs[r.d])]
        ELSE IF hist.copy.on /\ r.op \in Mutators /\ r.c = hist.copy.c THEN hist.copy
        ELSE NoCopy]

\* A call ends, leaving the objects vs: with undefined behaviour met, it
\* may have stopped the program instead.
Finish(vs, R, rec(_)) ==
    /\ \E cr \in (IF R.M.oob THEN BOOLEAN ELSE {FALSE}) :
          /\ crashed' = cr
          /\ last' = [rec(cr) EXCEPT !.orphaned = Cardinality(Orphans(R.M.heap, vs)),
                                     !.orphanLive = LiveIn(R.M.heap, Orphans(R.M.heap, vs))]
          /\ IF cr THEN UNCHANGED <<vec, heap, hist>>
             ELSE /\ vec' = vs
                  /\ heap' = Reachable(R.M.heap, vs)
                  /\ hist' = History(rec(cr), vs, Reachable(R.M.heap, vs))
    /\ UNCHANGED kind

\* A call on object c.
Commit(c, R, rec(_)) == Finish([vec EXCEPT ![c] = R.v], R, rec)

\* A call on object c that takes object d (c # d, or both the same object).
Commit2(c, d, R, rec(_)) ==
    Finish(IF c = d THEN [vec EXCEPT ![c] = R.v] ELSE [vec EXCEPT ![c] = R.v, ![d] = R.o],
           R, rec)

\* The values an invalid read may yield: one is enough where none happens.
Garbage(v) == IF WellFormed(heap, v) THEN {0} ELSE Values

\* What may go wrong in a call, given its run R0 with nothing going wrong:
\* <<allocOk, fail>>, any one of its constructions throwing, or its
\* allocation failing.
Faults(R0) ==
    {<<TRUE, k>> : k \in 0..R0.M.ops}
        \cup (IF R0.M.allocs > 0 THEN {<<FALSE, 0>>} ELSE {})

\* The program makes its next call once it is done with the last one.
Ready == ~crashed /\ last.op = "none"
Usable(c) == Ready /\ vec[c].alive
Unborn(c) == Ready /\ ~vec[c].alive

\* The bound m on capacities and sizes that the calls respect.
GrowthFits(v, m) ==
    IF v.size = v.data.capacity THEN NewExpendedCap(v.size) <= m
    ELSE v.size + 1 <= m

Init ==
    /\ vec = [c \in Names |-> NoVector]
    /\ heap = [b \in BufIds |-> FreeBlock]
    /\ kind \in Kinds
    /\ crashed = FALSE
    /\ last = Idle
    /\ hist = [appendOnly |-> {}, copy |-> NoCopy]

CallDefaultCtor(c) ==
    /\ Unborn(c)
    /\ LET R == Res(Call(0, TRUE, 0), MkVector(EmptyMemory, 0), NoPtr)
       IN Commit(c, R, LAMBDA cr : Record("Vector", c, c, 0, 0, "none", R, cr, FALSE))

CallSizedCtor(c, m) ==
    /\ Unborn(c)
    /\ \E n \in 0..m :
         \E f \in Faults(SizedCtor(Call(0, TRUE, 0), n)) :
            LET R == SizedCtor(Call(f[2], f[1], 0), n)
            IN Commit(c, R,
                      LAMBDA cr : Record("Vector(n)", c, c, n, 0, "none", R, cr, FALSE))

CallCopyCtor(c, d) ==
    /\ Unborn(c) /\ vec[d].alive /\ kind.copyable
    /\ \E g \in Garbage(vec[d]) :
         \E f \in Faults(CopyCtor(Call(0, TRUE, g), vec[d])) :
            LET R == CopyCtor(Call(f[2], f[1], g), vec[d])
            IN Commit2(c, d, R,
                       LAMBDA cr : Record("Vector(const&)", c, d, 0, 0, "none", R, cr, FALSE))

CallMoveCtor(c, d) ==
    /\ Unborn(c) /\ vec[d].alive
    /\ LET R == MoveCtor(Call(0, TRUE, 0), vec[d])
       IN Commit2(c, d, R,
                  LAMBDA cr : Record("Vector(&&)", c, d, 0, 0, "none", R, cr, FALSE))

CallCopyAssign(c, d) ==
    /\ Usable(c) /\ Usable(d) /\ kind.copyable
    /\ \E g \in Garbage(vec[d]) :
         \E f \in Faults(CopyAssign(Call(0, TRUE, g), vec[c], vec[d], c = d)) :
            LET R == CopyAssign(Call(f[2], f[1], g), vec[c], vec[d], c = d)
            IN Commit2(c, d, R,
                       LAMBDA cr : Record("operator=(const&)", c, d, 0, 0, "none", R, cr,
                                          FALSE))

CallMoveAssign(c, d) ==
    /\ Usable(c) /\ Usable(d)
    /\ LET R == MoveAssign(Call(0, TRUE, 0), vec[c], vec[d], c = d)
       IN Commit2(c, d, R,
                  LAMBDA cr : Record("operator=(&&)", c, d, 0, 0, "none", R, cr, FALSE))

CallSwap(c, d) ==
    /\ Usable(c) /\ Usable(d) /\ c # d
    /\ LET R == Swap(Call(0, TRUE, 0), vec[c], vec[d])
       IN Commit2(c, d, R, LAMBDA cr : Record("Swap", c, d, 0, 0, "none", R, cr, FALSE))

CallReserve(c, m) ==
    /\ Usable(c)
    /\ \E n \in 0..m, g \in Garbage(vec[c]) :
         \E f \in Faults(Reserve(Call(0, TRUE, g), vec[c], n)) :
            LET R == Reserve(Call(f[2], f[1], g), vec[c], n)
            IN Commit(c, R,
                      LAMBDA cr : Record("Reserve", c, c, n, 0, "none", R, cr, FALSE))

CallResize(c, m) ==
    /\ Usable(c)
    /\ \E n \in 0..m, g \in Garbage(vec[c]) :
         \E f \in Faults(Resize(Call(0, TRUE, g), vec[c], n)) :
            LET R == Resize(Call(f[2], f[1], g), vec[c], n)
            IN Commit(c, R,
                      LAMBDA cr : Record("Resize", c, c, n, 0, "none", R, cr, FALSE))

\* PushBack(const T&) and PushBack(T&&) (how = "copy", "move"), EmplaceBack ("args")
AppendCall(c, op, how, m) ==
    /\ Usable(c) /\ GrowthFits(vec[c], m)
    /\ \E x \in Values, g \in Garbage(vec[c]) :
         \E f \in Faults(EmplaceBack(Call(0, TRUE, g), vec[c], Lit(x), how)) :
            LET R == EmplaceBack(Call(f[2], f[1], g), vec[c], Lit(x), how)
            IN Commit(c, R,
                      LAMBDA cr : Record(op, c, c, vec[c].size, x, how, R, cr, FALSE))

CallPushBack(c, m) == kind.copyable /\ AppendCall(c, "PushBack", "copy", m)

\* v.PushBack(v[j]): the argument is a reference to an element of v itself
CallPushBackOwn(c, m) ==
    /\ kind.copyable /\ Usable(c) /\ GrowthFits(vec[c], m)
    /\ \E j \in 0..(vec[c].size - 1), g \in Garbage(vec[c]) :
         LET p == Ptr(vec[c].data.buffer, j)
             x == Load(Call(0, TRUE, g), p.buffer, p.idx).v
         IN \E f \in Faults(EmplaceBack(Call(0, TRUE, g), vec[c], Ref(p), "copy")) :
               LET R == EmplaceBack(Call(f[2], f[1], g), vec[c], Ref(p), "copy")
               IN Commit(c, R,
                         LAMBDA cr : [Record("PushBack", c, c, vec[c].size, x, "copy", R,
                                             cr, FALSE) EXCEPT !.src = p])

CallPushBackMove(c, m) == AppendCall(c, "PushBack", "move", m)

CallEmplaceBack(c, m) == AppendCall(c, "EmplaceBack", "args", m)

CallPopBack(c) ==
    /\ Usable(c) /\ vec[c].size > 0
    /\ LET R == PopBack(Call(0, TRUE, 0), vec[c])
       IN Commit(c, R, LAMBDA cr : Record("PopBack", c, c, 0, 0, "none", R, cr, FALSE))

\* Insert(pos, const T&) and Insert(pos, T&&) (how = "copy", "move"), Emplace ("args"),
\* with pos = begin() + i
InsertCall(c, op, how, m) ==
    /\ Usable(c) /\ GrowthFits(vec[c], m)
    /\ \E i \in 0..vec[c].size, x \in Values, g \in Garbage(vec[c]) :
         \E f \in Faults(Emplace(Call(0, TRUE, g), vec[c], i, Lit(x), how)) :
            LET R == Emplace(Call(f[2], f[1], g), vec[c], i, Lit(x), how)
            IN Commit(c, R, LAMBDA cr : Record(op, c, c, i, x, how, R, cr, FALSE))

CallInsert(c, m) == kind.copyable /\ InsertCall(c, "Insert", "copy", m)

\* v.Insert(v.begin() + i, v[j]): the argument is a reference to an element of v
CallInsertOwn(c, m) ==
    /\ kind.copyable /\ Usable(c) /\ GrowthFits(vec[c], m)
    /\ \E i \in 0..vec[c].size, j \in 0..(vec[c].size - 1), g \in Garbage(vec[c]) :
         LET p == Ptr(vec[c].data.buffer, j)
             x == Load(Call(0, TRUE, g), p.buffer, p.idx).v
         IN \E f \in Faults(Emplace(Call(0, TRUE, g), vec[c], i, Ref(p), "copy")) :
               LET R == Emplace(Call(f[2], f[1], g), vec[c], i, Ref(p), "copy")
               IN Commit(c, R,
                         LAMBDA cr : [Record("Insert", c, c, i, x, "copy", R, cr, FALSE)
                                         EXCEPT !.src = p])

CallInsertMove(c, m) == InsertCall(c, "Insert", "move", m)

CallEmplace(c, m) == InsertCall(c, "Emplace", "args", m)

\* Erase(begin() + i)
CallErase(c) ==
    /\ Usable(c)
    /\ \E i \in 0..(vec[c].size - 1), g \in Garbage(vec[c]) :
          LET R == Erase(Call(0, TRUE, g), vec[c], Ptr(vec[c].data.buffer, i))
          IN Commit(c, R, LAMBDA cr : Record("Erase", c, c, i, 0, "none", R, cr, FALSE))

\* Erase(Insert(pos, x)): Erase called with the iterator the call before it returned
CallEraseInserted(c) ==
    /\ ~crashed /\ vec[c].alive
    /\ last.op \in {"Insert", "Emplace"} /\ last.c = c /\ last.outcome = "ok"
    /\ \E g \in Garbage(vec[c]) :
          LET R == Erase(Call(0, TRUE, g), vec[c], last.ret)
          IN Commit(c, R,
                    LAMBDA cr : Record("Erase", c, c, last.ret.idx, 0, "none", R, cr, TRUE))

\* v[i] = x
CallSubscript(c) ==
    /\ Usable(c)
    /\ \E i \in 0..(vec[c].size - 1), x \in Values :
          LET R == Subscript(Call(0, TRUE, 0), vec[c], i, x)
          IN Commit(c, R,
                    LAMBDA cr : Record("operator[]", c, c, i, x, "none", R, cr, FALSE))

CallDestructor(c) ==
    /\ Usable(c)
    /\ LET R == Res(Destructor(Call(0, TRUE, 0), vec[c]), NoVector, NoPtr)
       IN Commit(c, R, LAMBDA cr : Record("~Vector", c, c, 0, 0, "none", R, cr, FALSE))

\* The program has looked at the outcome of the last call and goes on.
Return ==
    /\ ~crashed /\ last.op # "none"
    /\ last' = Idle
    /\ UNCHANGED <<vec, heap, kind, crashed, hist>>

\* Two objects, which copy, move, assign to and swap with each other.
Next ==
    \/ \E c \in Names : CallDefaultCtor(c)
    \/ \E c \in Names : CallSizedCtor(c, PairCap)
    \/ \E c, d \in Names : CallCopyCtor(c, d)
    \/ \E c, d \in Names : CallMoveCtor(c, d)
    \/ \E c, d \in Names : CallCopyAssign(c, d)
    \/ \E c, d \in Names : CallMoveAssign(c, d)
    \/ \E c, d \in Names : CallSwap(c, d)
    \/ \E c \in Names : CallReserve(c, PairCap)
    \/ \E c \in Names : CallResize(c, PairCap)
    \/ \E c \in Names : CallPushBack(c, PairCap)
    \/ \E c \in Names : CallPushBackMove(c, PairCap)
    \/ \E c \in Names : CallEmplaceBack(c, PairCap)
    \/ \E c \in Names : CallPopBack(c)
    \/ \E c \in Names : CallInsert(c, PairCap)
    \/ \E c \in Names : CallInsertMove(c, PairCap)
    \/ \E c \in Names : CallEmplace(c, PairCap)
    \/ \E c \in Names : CallErase(c)
    \/ \E c \in Names : CallEraseInserted(c)
    \/ \E c \in Names : CallSubscript(c)
    \/ \E c \in Names : CallDestructor(c)
    \/ Return

Spec == Init /\ [][Next]_vars

\* One object, "a", with room to grow.
NextSolo ==
    \/ CallDefaultCtor("a")
    \/ CallSizedCtor("a", MaxCap)
    \/ CallReserve("a", MaxCap)
    \/ CallResize("a", MaxCap)
    \/ CallPushBack("a", MaxCap)
    \/ CallPushBackOwn("a", MaxCap)
    \/ CallPushBackMove("a", MaxCap)
    \/ CallEmplaceBack("a", MaxCap)
    \/ CallPopBack("a")
    \/ CallInsert("a", MaxCap)
    \/ CallInsertOwn("a", MaxCap)
    \/ CallInsertMove("a", MaxCap)
    \/ CallEmplace("a", MaxCap)
    \/ CallErase("a")
    \/ CallEraseInserted("a")
    \/ CallSubscript("a")
    \/ CallDestructor("a")
    \/ Return

SpecSolo == Init /\ [][NextSolo]_vars

\* --------------------------------------------------------------- claims
Max(x, y) == IF x >= y THEN x ELSE y

\* s with e put before its element of index i (from 0), and s without that element
SeqInsert(s, i, e) == SubSeq(s, 1, i) \o <<e>> \o SubSeq(s, i + 1, Len(s))
SeqRemove(s, i) == SubSeq(s, 1, i) \o SubSeq(s, i + 2, Len(s))

\* The object of the last call, now and when the call was made.
Now == vec[last.c]
Before == last.vec0[last.c]
WasWellFormed == WellFormed(last.heap0, Before)
Ok(ops) == last.op \in ops /\ last.outcome = "ok"

\* The capacity after n appends to a default-constructed object: 0, 1, 2, 4, 8, ...
RECURSIVE CapAfter(_)
CapAfter(n) ==
    IF n = 0 THEN 0
    ELSE IF n - 1 < CapAfter(n - 1) THEN CapAfter(n - 1) ELSE Max(1, 2 * (n - 1))

\* C1: every object that exists, a moved-from one included, has Size() <= Capacity().
SizeWithinCapacity == \A c \in Names : vec[c].alive => vec[c].size <= vec[c].data.capacity

\* C2: after a move construction from, or a move assignment from, a different
\* object, the source has Size() = 0 and Capacity() = 0.
MovedFromIsEmpty ==
    (Ok(MoveOps) /\ last.c # last.d)
        => vec[last.d].size = 0 /\ vec[last.d].data.capacity = 0

\* C3: for a copyable type whose move constructor may throw, a copy constructor
\* that throws on the k-th copy of a relocation (Reserve, a growing Resize,
\* PushBack/EmplaceBack and Emplace/Insert at full capacity) leaves the object
\* with the size, the capacity, the block and the elements it had.
RelocationThrew ==
    /\ kind.copyable /\ ~kind.nothrow_move
    /\ last.op \in {"Reserve", "Resize"} \cup AppendOps \cup InsertOps
    /\ last.outcome = "threw" /\ last.threwIn = "copy"

CopyThrowKeepsState == RelocationThrew => vec = last.vec0 /\ heap = last.heap0

CopyThrowKeepsStateWitness ==
    /\ RelocationThrew
    /\ last.op = "Insert" /\ last.i = 1 /\ Before.size = 2 /\ last.fail = 3

\* C4: an append or an insertion at Size() = Capacity() leaves the capacity
\* max(1, 2 * old size), one at Size() < Capacity() leaves it as it was; an object
\* that was default-constructed and then appended to has the capacity 0, 1, 2, 4, ...
\* of its size.
GrowthDoubles ==
    /\ (Ok(AppendOps \cup InsertOps) /\ Before.size = Before.data.capacity)
          => Now.data.capacity = Max(1, 2 * Before.size)
    /\ (Ok(AppendOps \cup InsertOps) /\ Before.size < Before.data.capacity)
          => Now.data.capacity = Before.data.capacity
    /\ \A c \in hist.appendOnly : vec[c].data.capacity = CapAfter(vec[c].size)

GrowthDoublesWitness ==
    /\ Ok({"PushBack"}) /\ last.c \in hist.appendOnly
    /\ Before.size = 2 /\ Before.data.capacity = 2
    /\ Now.size = 3 /\ Now.data.capacity = 4

\* C5: Erase of the iterator that Insert(begin() + i, v) returned leaves the
\* object with the size and the elements, in order, it had before the Insert.
RoundTrip == last.op = "Erase" /\ last.rt /\ last.outcome = "ok"
InsertedInto == last.origv[last.c]

EraseUndoesInsert ==
    (RoundTrip /\ WellFormed(last.origh, InsertedInto))
        => /\ ~last.oob
           /\ WellFormed(heap, Now)
           /\ Now.size = InsertedInto.size
           /\ Contents(heap, Now) = Contents(last.origh, InsertedInto)

EraseUndoesInsertWitness ==
    /\ RoundTrip /\ WellFormed(last.origh, InsertedInto)
    /\ InsertedInto.size = 2 /\ InsertedInto.data.capacity = 2 /\ last.i = 1
    /\ Contents(heap, Now) = <<Obj(0), Obj(1)>>

\* C6: once an object is a copy of another (copy construction or copy
\* assignment), mutating calls on the copy leave the original's size, capacity
\* and elements as they were.
CopyIsIndependent ==
    hist.copy.on => /\ vec[hist.copy.d] = hist.copy.v
                    /\ BlockOf(heap, vec[hist.copy.d]) = hist.copy.blk

CopyIsIndependentWitness ==
    /\ hist.copy.on /\ Ok({"operator[]"}) /\ last.c = hist.copy.c
    /\ vec[hist.copy.d].size = 2
    /\ WellFormed(heap, Now) /\ WellFormed(heap, vec[hist.copy.d])
    /\ Contents(heap, Now) # Contents(heap, vec[hist.copy.d])

\* C7: a move assignment a = std::move(b), a and b distinct, disposes of what
\* a held: no block a owned is left live and unowned, and no element in one.
MoveAssignDisposes ==
    (Ok({"operator=(&&)"}) /\ last.c # last.d)
        => last.orphaned = 0 /\ last.orphanLive = 0

\* C8: a copy assignment that completes leaves the target with rhs's size and
\* elements in order, rhs as it was, touches only slots of the target's own
\* block, and leaves the capacity as it was when rhs.size <= old capacity,
\* rhs.size otherwise.  (Stated of well-formed targets and sources.)
CopyAssignCopies ==
    (/\ Ok({"operator=(const&)"}) /\ last.c # last.d
     /\ WasWellFormed /\ WellFormed(last.heap0, last.vec0[last.d]))
        => /\ ~last.oob
           /\ WellFormed(heap, Now)
           /\ Now.size = last.vec0[last.d].size
           /\ Contents(heap, Now) = Contents(last.heap0, last.vec0[last.d])
           /\ vec[last.d] = last.vec0[last.d]
           /\ BlockOf(heap, vec[last.d]) = BlockOf(last.heap0, last.vec0[last.d])
           /\ Now.data.capacity =
                 IF last.vec0[last.d].size <= Before.data.capacity
                 THEN Before.data.capacity ELSE last.vec0[last.d].size

\* C9: Insert/Emplace at begin() + i with value v leaves s[0..i), v, s[i..size),
\* the size one more, and returns the iterator at index i of the object's block,
\* on the at-end, the in-place and the growth path.
InsertPlaces ==
    (Ok(InsertOps) /\ WasWellFormed)
        => /\ ~last.oob
           /\ WellFormed(heap, Now)
           /\ Now.size = Before.size + 1
           /\ Contents(heap, Now) =
                 SeqInsert(Contents(last.heap0, Before), last.i, Obj(last.x))
           /\ last.ret = Ptr(Now.data.buffer, last.i)

InsertPlacesWitness ==
    /\ Ok(InsertOps) /\ WasWellFormed
    /\ Before.size = 3 /\ Before.data.capacity = 4 /\ last.i = 0 /\ last.x = 1
    /\ Contents(last.heap0, Before) = <<Obj(0), Obj(1), Obj(0)>>

\* C10: Erase(begin() + i) leaves s without its i-th element, in order, the
\* size one less, the capacity and the block as they were, destroys one
\* element, the trailing one, and returns the iterator at index i.
EraseRemoves ==
    (Ok({"Erase"}) /\ ~last.rt /\ WasWellFormed)
        => /\ ~last.oob
           /\ WellFormed(heap, Now)
           /\ Now.size = Before.size - 1
           /\ Now.data = Before.data
           /\ Contents(heap, Now) = SeqRemove(Contents(last.heap0, Before), last.i)
           /\ last.destroyed = 1
           /\ heap[Now.data.buffer].slots[Before.size].st = "raw"
           /\ last.ret = Ptr(Now.data.buffer, last.i)

EraseRemovesWitness ==
    /\ Ok({"Erase"}) /\ ~last.rt /\ WasWellFormed
    /\ Before.size = 3 /\ last.i = 0
    /\ Contents(last.heap0, Before) = <<Obj(1), Obj(0), Obj(1)>>

Min(x, y) == IF x <= y THEN x ELSE y

\* C11: Resize(n) that completes leaves Size() = n and Capacity() >= n, the first
\* min(old size, n) elements as they were, the elements at [old size, n) with the
\* default value; for n < old size it destroys the trailing old size - n
\* elements and nothing else; Resize(old size) changes nothing.
ResizeResizes ==
    (Ok({"Resize"}) /\ WasWellFormed)
        => /\ ~last.oob
           /\ WellFormed(heap, Now)
           /\ Now.size = last.i
           /\ Now.data.capacity >= last.i
           /\ SubSeq(Contents(heap, Now), 1, Min(Before.size, last.i))
                 = SubSeq(Contents(last.heap0, Before), 1, Min(Before.size, last.i))
           /\ \A j \in (Before.size + 1)..last.i :
                 Contents(heap, Now)[j] = Obj(DefaultValue)
           /\ last.i < Before.size
                 => /\ last.destroyed = Before.size - last.i
                    /\ Now.data = Before.data
                    /\ last.ops = 0 /\ last.allocs = 0
           /\ last.i = Before.size
                 => /\ vec = last.vec0 /\ heap = last.heap0
                    /\ last.destroyed = 0 /\ last.ops = 0 /\ last.allocs = 0

ResizeResizesWitness ==
    /\ Ok({"Resize"}) /\ WasWellFormed
    /\ Before.size = 2 /\ Before.data.capacity = 2 /\ last.i = 4
    /\ Contents(last.heap0, Before) = <<Obj(1), Obj(1)>>
    /\ Contents(heap, Now) = <<Obj(1), Obj(1), Obj(DefaultValue), Obj(DefaultValue)>>

\* C12: Reserve(n) with n <= Capacity() changes nothing; Reserve(n) with
\* n > Capacity() leaves the capacity n, the size and the elements in order as
\* they were, the elements in a new block, and the old block released with
\* every element of it destroyed before.
ReserveReserves ==
    (Ok({"Reserve"}) /\ WasWellFormed)
        => /\ ~last.oob
           /\ last.i <= Before.data.capacity
                 => /\ vec = last.vec0 /\ heap = last.heap0
                    /\ last.destroyed = 0 /\ last.ops = 0 /\ last.allocs = 0
           /\ last.i > Before.data.capacity
                 => /\ WellFormed(heap, Now)
                    /\ Now.data.capacity = last.i
                    /\ Now.size = Before.size
                    /\ Contents(heap, Now) = Contents(last.heap0, Before)
                    /\ Now.data.buffer # Before.data.buffer
                    /\ Before.data.buffer # Null => ~heap[Before.data.buffer].live
                    /\ last.destroyed = Before.size
                    /\ last.relLive = 0 /\ last.orphaned = 0 /\ ~last.dfree

ReserveReservesWitness ==
    /\ Ok({"Reserve"}) /\ WasWellFormed
    /\ Before.size = 2 /\ Before.data.capacity = 2 /\ last.i = 3
    /\ Contents(heap, Now) = <<Obj(0), Obj(1)>>
    /\ Now.data.buffer # Before.data.buffer

\* C13: when the allocation of a new block fails in Reserve, a growing Resize,
\* PushBack/EmplaceBack/Emplace/Insert at full capacity or a copy assignment with
\* rhs.size > capacity, the call ends with std::bad_alloc and every object and
\* every block is as it was: no element was constructed, moved, copied or
\* destroyed, and no new block is kept.
AllocGrowOps ==
    {"Reserve", "Resize", "operator=(const&)"} \cup AppendOps \cup InsertOps

AllocFailureKeepsState ==
    (last.op \in AllocGrowOps /\ last.outcome = "bad_alloc")
        => /\ vec = last.vec0 /\ heap = last.heap0
           /\ last.ops = 0 /\ last.moved = 0 /\ last.copied = 0
           /\ last.destroyed = 0 /\ last.relLive = 0 /\ last.orphaned = 0
           /\ ~last.oob /\ ~last.dfree

AllocFailureKeepsStateWitness ==
    /\ last.op = "operator=(const&)" /\ last.outcome = "bad_alloc"
    /\ WasWellFormed /\ WellFormed(last.heap0, last.vec0[last.d])
    /\ Before.size = 1 /\ Before.data.capacity = 1 /\ last.vec0[last.d].size = 2

\* C14: no two objects that exist hold the same non-null block, and no block is
\* released that is not allocated (none is released twice).
NoSharedBlock ==
    /\ \A c, d \in Names :
          (c # d /\ vec[c].alive /\ vec[d].alive /\ vec[c].data.buffer # Null)
              => vec[c].data.buffer # vec[d].data.buffer
    /\ ~last.dfree

NoSharedBlockWitness ==
    /\ Ok({"Vector(&&)"}) /\ last.c # last.d
    /\ vec[last.c].alive /\ vec[last.d].alive
    /\ vec[last.c].data.buffer # Null /\ vec[last.c].size = 2
    /\ vec[last.d].data.buffer = Null

\* C15: whenever a block is released, on success and on failure paths, no
\* element is constructed in it: every element built in it was destroyed before.
ReleasedBlocksAreEmpty == last.relLive = 0

\* C16: in PushBack, EmplaceBack and Emplace/Insert, in place and growing, the
\* new element is the first thing constructed: when its constructor throws, no
\* element was moved, copied, shifted or destroyed, and the object has the
\* block, the size, the capacity and the elements it had.
NewElementThrew ==
    /\ last.op \in AppendOps \cup InsertOps
    /\ last.outcome = "threw" /\ last.threwIn = "ctor"

NewElementFirst ==
    NewElementThrew
        => /\ vec = last.vec0 /\ heap = last.heap0
           /\ last.fail = 1 /\ last.ops = 1
           /\ last.moved = 0 /\ last.copied = 0 /\ last.destroyed = 0
           /\ last.relLive = 0 /\ last.orphaned = 0 /\ ~last.oob

NewElementFirstWitness ==
    /\ NewElementThrew /\ last.op = "Insert" /\ last.i = 1
    /\ Before.size = 2 /\ Before.data.capacity = 2

\* C17: when the k-th element construction throws in Vector(n) or in the copy
\* constructor, the k - 1 elements constructed before are destroyed, the new
\* block is released, no object results, and the source of the copy, like
\* everything else, is as it was.
CtorThrew ==
    last.op \in {"Vector(n)", "Vector(const&)"} /\ last.outcome = "threw"

CtorFailureCleansUp ==
    CtorThrew
        => /\ ~vec[last.c].alive
           /\ vec = last.vec0 /\ heap = last.heap0
           /\ last.destroyed = last.fail - 1
           /\ last.relLive = 0 /\ last.orphaned = 0 /\ ~last.dfree

CtorFailureCleansUpWitness ==
    /\ CtorThrew /\ last.op = "Vector(const&)" /\ last.fail = 2
    /\ WellFormed(last.heap0, last.vec0[last.d]) /\ last.vec0[last.d].size = 2
    /\ last.destroyed = 1

\* C18: Reserve, the growth of PushBack/EmplaceBack and the growth of
\* Emplace/Insert relocate in the same mode: by move when T's move constructor
\* cannot throw, otherwise by copy when T is copy-constructible, otherwise by
\* move.  A relocation that succeeds has destroyed every old element once,
\* released the old block empty, and the new block holds the old values in order.
RelocatingOps == {"Reserve", "Resize"} \cup AppendOps \cup InsertOps

Relocated ==
    /\ Ok(RelocatingOps) /\ WasWellFormed
    /\ Now.data.capacity > Before.data.capacity

ModeByMove ==
    IF kind.nothrow_move THEN TRUE ELSE IF kind.copyable THEN FALSE ELSE TRUE

\* the old elements, as the new block holds them
Relocation ==
    IF last.op \in InsertOps THEN SeqRemove(Contents(heap, Now), last.i)
    ELSE SubSeq(Contents(heap, Now), 1, Before.size)

RelocationMode ==
    /\ Relocated
          => /\ last.moved = (IF ModeByMove THEN Before.size ELSE 0)
             /\ last.copied = (IF ModeByMove THEN 0 ELSE Before.size)
             /\ last.destroyed = Before.size
             /\ last.relLive = 0 /\ last.orphaned = 0 /\ ~last.dfree /\ ~last.oob
             /\ Before.data.buffer # Null => ~heap[Before.data.buffer].live
             /\ WellFormed(heap, Now)
             /\ Relocation = Contents(last.heap0, Before)
    /\ (last.op \in RelocatingOps /\ last.outcome = "threw"
            /\ last.threwIn \in {"move", "copy"})
          => last.threwIn = (IF ModeByMove THEN "move" ELSE "copy")

RelocationModeWitness ==
    /\ Relocated /\ ~kind.nothrow_move /\ ~kind.copyable
    /\ last.op = "Emplace" /\ last.i = 1
    /\ Before.size = 2 /\ last.moved = 2 /\ last.destroyed = 2

\* C19: PushBack, EmplaceBack, Emplace/Insert, Resize, copy assignment and
\* destruction, also of an object that was moved from, construct, assign, read
\* and destroy only in slots below the capacity of a block the object owns:
\* never through a null pointer or past the reserved slots.
AccessesStayInBlock ==
    last.op \in AppendOps \cup InsertOps \cup {"Resize", "operator=(const&)", "~Vector"}
        => ~last.oob

\* C20: Insert(pos, x) and PushBack(x) with x a const reference to an element of
\* the object itself insert the value that element had before the call and
\* leave the other elements with their values, in order, in place and growing.
OwnElementPassed ==
    /\ Ok({"Insert", "PushBack"}) /\ last.src # NoPtr /\ WasWellFormed

OwnElementInserted ==
    OwnElementPassed
        => /\ WellFormed(heap, Now)
           /\ Now.size = Before.size + 1
           /\ Contents(heap, Now)[last.i + 1]
                 = Contents(last.heap0, Before)[last.src.idx + 1]
           /\ SeqRemove(Contents(heap, Now), last.i) = Contents(last.heap0, Before)

OwnElementInsertedWitness ==
    /\ OwnElementPassed /\ last.op = "Insert"
    /\ Before.size = 2 /\ Before.data.capacity = 4 /\ last.i = 0 /\ last.src.idx = 1
    /\ Contents(last.heap0, Before) = <<Obj(0), Obj(1)>>
    /\ Contents(heap, Now) = <<Obj(1), Obj(0), Obj(1)>>

====
